---- MODULE Spec2Model ----
(***************************************************************************)
(* Model of monitor.py: discovery of the InfiniBand adapters that are up,  *)
(* the ethtool counter query, the per-device sample windows and the rate   *)
(* series the table is built from.                                         *)
(* Strings of the program are sequences of one-character strings, so that  *)
(* strip(), the substring test, sorting and the NUL-padded slot decoding   *)
(* are computed rather than assumed.                                       *)
(***************************************************************************)
EXTENDS Integers, Sequences, FiniteSets, TLC

-----------------------------------------------------------------------------
(* Program constants *)

ETHTOOL_GSTRINGS == 27
ETHTOOL_GSSET_INFO == 55
ETHTOOL_GSTATS == 29
ETH_SS_STATS == 1
ETH_GSTRING_LEN == 32
WindowLen == 20
SparkScale == 1000
RateScale == 1000000

(* Bounds of the model *)

\* number of generate_table() calls explored with free kernel responses
MaxTicks == 2
\* number of generate_table() calls explored with steadily growing counters
MaxSteadyTicks == 22

-----------------------------------------------------------------------------
(* Strings *)

\* the zero byte, in caret notation
NUL == "^@"

Whitespace == {" ", "\t", "\n", "\r"}

\* code points of the characters that occur in the names that get sorted
Ord(c) ==
    CASE c = "0" -> 48 [] c = "1" -> 49 [] c = "2" -> 50 [] c = "3" -> 51
      [] c = "5" -> 53 [] c = "_" -> 95 [] c = "a" -> 97 [] c = "b" -> 98
      [] c = "f" -> 102 [] c = "h" -> 104 [] c = "i" -> 105 [] c = "l" -> 108
      [] c = "m" -> 109 [] c = "x" -> 120

\* str.__lt__: lexicographic order on code points
RECURSIVE StrLess(_, _)
StrLess(a, b) ==
    IF b = <<>> THEN FALSE
    ELSE IF a = <<>> THEN TRUE
    ELSE IF Head(a) # Head(b) THEN Ord(Head(a)) < Ord(Head(b))
    ELSE StrLess(Tail(a), Tail(b))

\* the `in` operator on str: sub occurs in s as a contiguous substring
Contains(s, sub) ==
    \E i \in 0 .. (Len(s) - Len(sub)) :
        \A j \in 1 .. Len(sub) : s[i + j] = sub[j]

\* str.strip(): leading and trailing whitespace removed
RECURSIVE LStrip(_)
LStrip(s) ==
    IF s # <<>> /\ Head(s) \in Whitespace THEN LStrip(Tail(s)) ELSE s

RECURSIVE RStrip(_)
RStrip(s) ==
    IF s # <<>> /\ s[Len(s)] \in Whitespace
    THEN RStrip(SubSeq(s, 1, Len(s) - 1))
    ELSE s

Strip(s) == RStrip(LStrip(s))

\* sorted(): stable insertion sort of <<key, item>> pairs by key
RECURSIVE InsertByKey(_, _)
InsertByKey(sorted, x) ==
    IF sorted = <<>> THEN <<x>>
    ELSE IF StrLess(x[1], Head(sorted)[1])
         THEN <<x>> \o sorted
         ELSE <<Head(sorted)>> \o InsertByKey(Tail(sorted), x)

RECURSIVE SortPairs(_)
SortPairs(pairs) ==
    IF pairs = <<>> THEN <<>>
    ELSE InsertByKey(SortPairs(SubSeq(pairs, 1, Len(pairs) - 1)),
                     pairs[Len(pairs)])

\* sorted(names)
SortedNames(names) ==
    LET srt == SortPairs([i \in 1 .. Len(names) |-> <<names[i], names[i]>>])
    IN  [i \in 1 .. Len(names) |-> srt[i][2]]

\* sorted(devices, key=lambda x: x["net"])
SortedByNet(devices) ==
    LET srt == SortPairs([i \in 1 .. Len(devices) |->
                             <<devices[i].net, devices[i]>>])
    IN  [i \in 1 .. Len(devices) |-> srt[i][2]]

\* the names used by the program and its environment
S_mlx == <<"m", "l", "x">>
S_up == <<"u", "p">>
S_rx_bytes_phy == <<"r", "x", "_", "b", "y", "t", "e", "s", "_", "p", "h", "y">>
S_tx_bytes_phy == <<"t", "x", "_", "b", "y", "t", "e", "s", "_", "p", "h", "y">>
S_rx_packets_phy ==
    <<"r", "x", "_", "p", "a", "c", "k", "e", "t", "s", "_", "p", "h", "y">>
N_mlx5_0 == <<"m", "l", "x", "5", "_", "0">>
N_mlx5_1 == <<"m", "l", "x", "5", "_", "1">>
N_hfi1_0 == <<"h", "f", "i", "1", "_", "0">>
N_ib0 == <<"i", "b", "0">>
N_ib1 == <<"i", "b", "1">>
N_ib3 == <<"i", "b", "3">>

-----------------------------------------------------------------------------
(* Dictionaries: functions from keys to values *)

EmptyDict == [k \in {} |-> 0]

\* {k: v for k, v in pairs}: a later pair overrides an earlier one
DictOf(pairs) ==
    LET keys == {pairs[i][1] : i \in 1 .. Len(pairs)}
        last(k) == CHOOSE i \in 1 .. Len(pairs) :
                       /\ pairs[i][1] = k
                       /\ \A j \in 1 .. Len(pairs) : pairs[j][1] = k => j <= i
    IN  [k \in keys |-> pairs[last(k)][2]]

\* d[k] = v
DictSet(d, k, v) == [x \in DOMAIN d \cup {k} |-> IF x = k THEN v ELSE d[x]]

-----------------------------------------------------------------------------
(* The device registry /sys/class/infiniband, as the file system shows it *)

\* one entry of the registry: its device/net directory and, under the
\* directory's first child, the operstate file
NoNetDir ==
    [net_exists |-> FALSE, children |-> <<>>,
     state_exists |-> FALSE, operstate |-> <<>>]

EmptyNetDir ==
    [net_exists |-> TRUE, children |-> <<>>,
     state_exists |-> FALSE, operstate |-> <<>>]

NoStateFile(ifname) ==
    [net_exists |-> TRUE, children |-> <<ifname>>,
     state_exists |-> FALSE, operstate |-> <<>>]

Bound(ifname, content) ==
    [net_exists |-> TRUE, children |-> <<ifname>>,
     state_exists |-> TRUE, operstate |-> content]

OperstateContents ==
    { <<"u", "p", "\n">>,
      <<"d", "o", "w", "n", "\n">>,
      <<"d", "o", "r", "m", "a", "n", "t", "\n">> }

EntryChoices(ifnames) ==
    {NoNetDir, EmptyNetDir}
      \cup {NoStateFile(n) : n \in ifnames}
      \cup {Bound(n, c) : n \in ifnames, c \in OperstateContents}

\* the registries the model starts from: the path missing, or a directory
\* holding a non-mlx entry, mlx5_0 and possibly mlx5_1
Registries ==
    { [exists |-> FALSE, entries |-> EmptyDict] }
      \cup
    { [exists |-> TRUE,
       entries |-> DictSet(DictSet(DictSet(EmptyDict, N_hfi1_0, NoNetDir),
                                   N_mlx5_0, e0), N_mlx5_1, e1)] :
          e0 \in EntryChoices({N_ib0, N_ib3}), e1 \in EntryChoices({N_ib1}) }
      \cup
    { [exists |-> TRUE,
       entries |-> DictSet(DictSet(EmptyDict, N_hfi1_0, NoNetDir),
                           N_mlx5_0, e0)] :
          e0 \in EntryChoices({N_ib0, N_ib3}) }

\* os.listdir of a directory: its entries in an order the caller cannot rely on
RECURSIVE SetToSeq(_)
SetToSeq(S) ==
    IF S = {} THEN <<>>
    ELSE LET x == CHOOSE y \in S : TRUE IN <<x>> \o SetToSeq(S \ {x})

-----------------------------------------------------------------------------
(* The kernel's side of one counter query *)

\* a 32-byte NUL-padded slot of the string table
Slot(name) == name \o [i \in 1 .. (ETH_GSTRING_LEN - Len(name)) |-> NUL]

ZeroSlot == [i \in 1 .. ETH_GSTRING_LEN |-> NUL]

\* what the kernel answers to the three requests of one query: err names the
\* request whose ioctl raises OSError ("none": all succeed), mask and len are
\* the set-info response, strings and values the driver's tables
Answer(err, mask, len, names, values) ==
    [err |-> err, mask |-> mask, len |-> len,
     strings |-> [i \in 1 .. Len(names) |-> Slot(names[i])],
     values |-> values]

\* 1 << set_id, the bit of the statistics set in the set-info mask
StatsBit == 2 ^ ETH_SS_STATS

GoodAnswers ==
    { Answer("none", StatsBit, 2, <<S_rx_bytes_phy, S_tx_bytes_phy>>,
             <<1000, 2000>>),
      Answer("none", StatsBit, 2, <<S_tx_bytes_phy, S_rx_bytes_phy>>,
             <<2300, 1500>>),
      Answer("none", StatsBit, 3,
             <<S_rx_packets_phy, S_rx_bytes_phy, S_tx_bytes_phy>>,
             <<7, 41500, 2000>>) }

FailingAnswers ==
    { Answer(e, StatsBit, 2, <<S_rx_bytes_phy, S_tx_bytes_phy>>,
             <<1500, 2300>>) : e \in {"GSSET_INFO", "GSTRINGS", "GSTATS"} }
      \cup
    { Answer("none", 0, n, <<S_rx_bytes_phy, S_tx_bytes_phy>>,
             <<1500, 2300>>) : n \in {0, 2} }
      \cup
    { Answer("none", StatsBit, 1, <<S_rx_bytes_phy>>, <<1500>>),
      Answer("none", StatsBit, 1, <<S_tx_bytes_phy>>, <<2300>>) }

\* the answer to the q-th query of a device whose counters grow steadily
SteadyAnswer(q) ==
    Answer("none", StatsBit, 2, <<S_rx_bytes_phy, S_tx_bytes_phy>>,
           <<1000 + 500 * q, 2000 + 300 * q>>)

-----------------------------------------------------------------------------
(* Ethtool: the counter protocol client *)

\* the count of the set-info response taken as it is, whatever the mask
sset_len_unmasked(ans) == ans.len

\* the effective count: sset_len of the set-info response, 0 when mask is 0
sset_len_of(ans) == IF ans.mask = 0 THEN 0 ELSE ans.len

\* the buffer after the strings ioctl: the caller's n zeroed slots, the
\* driver's names written over the leading ones
StringsBuffer(ans, n) ==
    [i \in 1 .. n |-> IF i <= Len(ans.strings) THEN ans.strings[i]
                      ELSE ZeroSlot]

\* the buffer after the stats ioctl: n zeroed values, the driver's values
\* written over the leading ones
StatsBuffer(ans, n) ==
    [i \in 1 .. n |-> IF i <= Len(ans.values) THEN ans.values[i] ELSE 0]

\* bytes.partition(b'\x00')[0]: the bytes before the first NUL
DecodeSlot(slot) ==
    LET nuls == {i \in 1 .. Len(slot) : slot[i] = NUL}
        first == CHOOSE i \in nuls : \A j \in nuls : i <= j
    IN  IF nuls = {} THEN slot ELSE SubSeq(slot, 1, first - 1)

\* the names get_gstringset yields, once both of its ioctls have succeeded
get_gstringset(ans) ==
    LET sset_len == sset_len_of(ans)
        strings == StringsBuffer(ans, sset_len)
    IN  [i \in 1 .. sset_len |-> DecodeSlot(strings[i])]

\* the pairs with the values read from the end of the buffer backwards
get_nic_stats_reversed(ans) ==
    LET strings == get_gstringset(ans)
        n_stats == Len(strings)
        stats_buf == StatsBuffer(ans, n_stats)
    IN  [i \in 1 .. n_stats |-> <<strings[i], stats_buf[n_stats + 1 - i]>>]

\* the (name, value) pairs get_nic_stats yields, once its ioctls have succeeded
get_nic_stats(ans) ==
    LET strings == get_gstringset(ans)
        n_stats == Len(strings)
        stats_buf == StatsBuffer(ans, n_stats)
    IN  [i \in 1 .. n_stats |-> <<strings[i], stats_buf[i]>>]

\* the set-info request: command GSSET_INFO, len 0
SsetInfoRequest == [cmd |-> ETHTOOL_GSSET_INFO, count |-> 0]

\* the strings request: command GSTRINGS, len = sset_len
StringsRequest(ans) == [cmd |-> ETHTOOL_GSTRINGS, count |-> sset_len_of(ans)]

\* a stats request that declares the count of the set-info response as it
\* came, without regard to the mask
StatsRequestRawLen(ans) == [cmd |-> ETHTOOL_GSTATS, count |-> ans.len]

\* the stats request: command GSTATS, n_stats = len(strings)
StatsRequest(ans) ==
    [cmd |-> ETHTOOL_GSTATS, count |-> Len(get_gstringset(ans))]

\* the requests one call of get_nic_stats hands to _send_ioctl, in the order
\* of sending, up to and including the one whose ioctl raises
IoctlRequests(ans) ==
    IF ans.err = "GSSET_INFO" THEN <<SsetInfoRequest>>
    ELSE IF ans.err = "GSTRINGS" THEN <<SsetInfoRequest, StringsRequest(ans)>>
    ELSE <<SsetInfoRequest, StringsRequest(ans), StatsRequest(ans)>>

\* ethtool_data = {k: v for k, v in d.get_nic_stats()}: the snapshot, or the
\* OSError of the ioctl that failed
QueryDevice(ans) ==
    LET pairs == get_nic_stats(ans)
    IN  IF ans.err # "none"
        THEN [raised |-> "OSError", mask |-> 0, count |-> 0,
              data |-> EmptyDict, requests |-> IoctlRequests(ans),
              answer |-> ans]
        ELSE [raised |-> "none", mask |-> ans.mask, count |-> Len(pairs),
              data |-> DictOf(pairs), requests |-> IoctlRequests(ans),
              answer |-> ans]

-----------------------------------------------------------------------------
(* Discovery *)

\* os.listdir('/sys/class/infiniband/<name>/device/net')[0]
FirstNetChild(entry) ==
    IF ~entry.net_exists THEN [raised |-> "FileNotFoundError", value |-> <<>>]
    ELSE IF entry.children = <<>> THEN [raised |-> "IndexError", value |-> <<>>]
    ELSE [raised |-> "none", value |-> entry.children[1]]

\* the loop of get_ib_devices over the sorted listing, from position i on
RECURSIVE IbDevicesFrom(_, _, _, _)
IbDevicesFrom(reg, p, i, ib_devices) ==
    IF i > Len(p) THEN [raised |-> "none", value |-> ib_devices]
    ELSE IF ~Contains(p[i], S_mlx) THEN IbDevicesFrom(reg, p, i + 1, ib_devices)
    ELSE LET net == FirstNetChild(reg.entries[p[i]])
         IN  IF net.raised # "none"
             THEN [raised |-> net.raised, value |-> ib_devices]
             ELSE IbDevicesFrom(reg, p, i + 1,
                      Append(ib_devices, [mlx |-> p[i], net |-> net.value]))

\* the listing without its except clause: a missing registry path raises
get_ib_devices_uncaught(reg) ==
    IF ~reg.exists THEN [raised |-> "FileNotFoundError", value |-> <<>>]
    ELSE IbDevicesFrom(reg, SortedNames(SetToSeq(DOMAIN reg.entries)), 1, <<>>)

get_ib_devices(reg) ==
    IF ~reg.exists THEN [raised |-> "none", value |-> <<>>]
    ELSE IbDevicesFrom(reg, SortedNames(SetToSeq(DOMAIN reg.entries)), 1, <<>>)

\* a test that keeps every device whose state is not the word 'down'
IsNotDown(content) == content # <<"d", "o", "w", "n">>

\* f.read().strip() == 'up'
IsUp(content) == Strip(content) = S_up

\* the loop of get_up_ib_devices, from position i on
RECURSIVE UpDevicesFrom(_, _, _, _)
UpDevicesFrom(reg, ib_devices, i, up_ib_devices) ==
    IF i > Len(ib_devices) THEN [raised |-> "none", value |-> up_ib_devices]
    ELSE LET device == ib_devices[i]
             entry == reg.entries[device.mlx]
             netdevice == FirstNetChild(entry)
         IN  IF netdevice.raised # "none"
             THEN [raised |-> netdevice.raised, value |-> up_ib_devices]
             ELSE IF ~(\E j \in 1 .. Len(entry.children) :
                          entry.children[j] = netdevice.value)
             THEN UpDevicesFrom(reg, ib_devices, i + 1, up_ib_devices)
             ELSE IF ~entry.state_exists
             THEN [raised |-> "FileNotFoundError", value |-> up_ib_devices]
             ELSE IF IsUp(entry.operstate)
             THEN UpDevicesFrom(reg, ib_devices, i + 1,
                                Append(up_ib_devices, device))
             ELSE UpDevicesFrom(reg, ib_devices, i + 1, up_ib_devices)

get_up_ib_devices(reg) ==
    LET ib_devices == get_ib_devices(reg)
    IN  IF ib_devices.raised # "none" THEN ib_devices
        ELSE UpDevicesFrom(reg, ib_devices.value, 1, <<>>)

-----------------------------------------------------------------------------
(* The sample store *)

Repeat(v, n) == [i \in 1 .. n |-> v]

\* a window that starts from zeros instead of the first observed value
SeedZeros(value) == Repeat(0, WindowLen)

\* [value] * 20: the first observed value of a counter, 20 times
SeedWindow(value) == Repeat(value, WindowLen)

\* one line of the record kept of a loop over the devices: the device, what
\* its query returned and how its iteration ended
LogEntry(device, q, outcome) ==
    [mlx |-> device.mlx, net |-> device.net, raised |-> q.raised,
     mask |-> q.mask, count |-> q.count, data |-> q.data,
     requests |-> q.requests, answer |-> q.answer,
     outcome |-> outcome]

\* one iteration of the initialization loop: the query, stats[mlx] = {},
\* then the rx and the tx window, each the first value 20 times
InitDevice(st, device, ans) ==
    LET q == QueryDevice(ans)
        created == DictSet(st, device.mlx, EmptyDict)
        with_rx == DictSet(st, device.mlx,
                       DictSet(EmptyDict, S_rx_bytes_phy,
                               SeedWindow(q.data[S_rx_bytes_phy])))
        with_tx == DictSet(st, device.mlx,
                       DictSet(with_rx[device.mlx], S_tx_bytes_phy,
                               SeedWindow(q.data[S_tx_bytes_phy])))
    IN  IF q.raised # "none"
        THEN [stats |-> st, entry |-> LogEntry(device, q, "OSError")]
        ELSE IF S_rx_bytes_phy \notin DOMAIN q.data
        THEN [stats |-> created, entry |-> LogEntry(device, q, "KeyError")]
        ELSE IF S_tx_bytes_phy \notin DOMAIN q.data
        THEN [stats |-> with_rx, entry |-> LogEntry(device, q, "KeyError")]
        ELSE [stats |-> with_tx, entry |-> LogEntry(device, q, "ok")]

\* the initialization loop over ibd from position i on; it ends at the
\* first exception
RECURSIVE InitFrom(_, _, _, _, _)
InitFrom(devices, answers, i, st, log) ==
    IF i > Len(devices) THEN [stats |-> st, log |-> log, raised |-> "none"]
    ELSE LET r == InitDevice(st, devices[i], answers[i])
         IN  IF r.entry.outcome # "ok"
             THEN [stats |-> r.stats, log |-> Append(log, r.entry),
                   raised |-> r.entry.outcome]
             ELSE InitFrom(devices, answers, i + 1, r.stats,
                           Append(log, r.entry))

\* a forgotten pop: the list is left as it is
PopNothing(w) == w

\* list.pop(): the last element is removed instead of the first
PopLast(w) == SubSeq(w, 1, Len(w) - 1)

\* list.pop(0)
PopFirst(w) == Tail(w)

\* an iteration of update_stats that stores the moved windows under the
\* interface name of the device
UpdateDeviceByNet(st, device, ans) ==
    LET q == QueryDevice(ans)
        mine == st[device.mlx]
        moved == [c \in DOMAIN mine |->
                    IF c \in DOMAIN q.data
                    THEN PopFirst(Append(mine[c], q.data[c]))
                    ELSE mine[c]]
    IN  IF q.raised # "none"
        THEN [stats |-> st, entry |-> LogEntry(device, q, "OSError")]
        ELSE IF \A c \in DOMAIN mine : c \in DOMAIN q.data
        THEN [stats |-> DictSet(st, device.net, moved),
              entry |-> LogEntry(device, q, "ok")]
        ELSE [stats |-> st, entry |-> LogEntry(device, q, "KeyError")]

\* an append that always takes the received-bytes value of the snapshot
AppendRxSample(w, data, name) == Append(w, data[S_rx_bytes_phy])

\* stats[mlx][name].append(data[name])
AppendSample(w, data, name) == Append(w, data[name])

\* one iteration of update_stats: the query, the two appends, the two pops
UpdateDevice(st, device, ans) ==
    LET q == QueryDevice(ans)
        mine == st[device.mlx]
        rx_appended ==
            DictSet(mine, S_rx_bytes_phy,
                    AppendSample(mine[S_rx_bytes_phy], q.data, S_rx_bytes_phy))
        tx_appended ==
            DictSet(rx_appended, S_tx_bytes_phy,
                    AppendSample(mine[S_tx_bytes_phy], q.data, S_tx_bytes_phy))
        rx_popped ==
            DictSet(tx_appended, S_rx_bytes_phy,
                    PopFirst(tx_appended[S_rx_bytes_phy]))
        tx_popped ==
            DictSet(rx_popped, S_tx_bytes_phy,
                    PopFirst(rx_popped[S_tx_bytes_phy]))
    IN  IF q.raised # "none"
        THEN [stats |-> st, entry |-> LogEntry(device, q, "OSError")]
        ELSE IF S_rx_bytes_phy \notin DOMAIN q.data
        THEN [stats |-> st, entry |-> LogEntry(device, q, "KeyError")]
        ELSE IF S_tx_bytes_phy \notin DOMAIN q.data
        THEN [stats |-> DictSet(st, device.mlx, rx_appended),
              entry |-> LogEntry(device, q, "KeyError")]
        ELSE [stats |-> DictSet(st, device.mlx, tx_popped),
              entry |-> LogEntry(device, q, "ok")]

\* the loop of update_stats over ibd from position i on; it ends at the
\* first exception
RECURSIVE UpdateFrom(_, _, _, _, _)
UpdateFrom(devices, answers, i, st, log) ==
    IF i > Len(devices) THEN [stats |-> st, log |-> log, raised |-> "none"]
    ELSE LET r == UpdateDevice(st, devices[i], answers[i])
         IN  IF r.entry.outcome # "ok"
             THEN [stats |-> r.stats, log |-> Append(log, r.entry),
                   raised |-> r.entry.outcome]
             ELSE UpdateFrom(devices, answers, i + 1, r.stats,
                             Append(log, r.entry))

update_stats(devices, answers, st) == UpdateFrom(devices, answers, 1, st, <<>>)

-----------------------------------------------------------------------------
(* The rate series and the table *)

\* division that truncates toward zero, as int(a / b) does
TruncDiv(a, b) == IF a >= 0 THEN a \div b ELSE 0 - ((0 - a) \div b)

\* the series with every delta truncated toward zero instead of floored
RateSeriesTruncated(w) ==
    [i \in 1 .. (Len(w) - 1) |-> TruncDiv(w[i + 1] - w[i], SparkScale)]

\* the series with every negative delta replaced by 0
RateSeriesClamped(w) ==
    [i \in 1 .. (Len(w) - 1) |->
        IF w[i + 1] < w[i] THEN 0 ELSE (w[i + 1] - w[i]) \div SparkScale]

\* [(w[i] - w[i-1]) // 1000 for i in range(1, len(w))]
RateSeries(w) ==
    [i \in 1 .. (Len(w) - 1) |-> (w[i + 1] - w[i]) \div SparkScale]

\* the rate between the two entries before the newest one
LatestRateStale(w) ==
    [num |-> w[Len(w) - 1] - w[Len(w) - 2], den |-> RateScale]

\* (w[-1] - w[-2]) / 1000000, as the fraction num / den
LatestRate(w) == [num |-> w[Len(w)] - w[Len(w) - 1], den |-> RateScale]

\* f'{rate:.2f}': the sign and the hundredths of the rate rounded to two
\* decimals. A rate exactly halfway between two hundredths is rounded by its
\* binary representation; no counter value of this model produces one.
Format2f(rate) ==
    LET mag == IF rate.num < 0 THEN 0 - rate.num ELSE rate.num
        unit == rate.den \div 100
    IN  [negative |-> rate.num < 0,
         hundredths |-> (2 * mag + unit) \div (2 * unit)]

\* one table.add_row(...) of generate_table
TableRow(device, st) ==
    LET rx == st[device.mlx][S_rx_bytes_phy]
        tx == st[device.mlx][S_tx_bytes_phy]
    IN  [mlx |-> device.mlx, net |-> device.net,
         rx_series |-> RateSeries(rx), tx_series |-> RateSeries(tx),
         rx_rate |-> LatestRate(rx), tx_rate |-> LatestRate(tx),
         throughput |-> <<Format2f(LatestRate(rx)), Format2f(LatestRate(tx))>>]

\* the rows generate_table adds, in the order of the interface names
TableRows(devices, st) ==
    LET order == SortedByNet(devices)
    IN  [i \in 1 .. Len(order) |-> TableRow(order[i], st)]

\* what a call of generate_table leaves once its update_stats() call has
\* returned r: the rows built from st, or no table after an exception
TableOf(devices, r, st) ==
    [stats |-> r.stats, log |-> r.log, raised |-> r.raised,
     rows |-> IF r.raised = "none" THEN TableRows(devices, st) ELSE <<>>]

\* a generate_table that builds its rows from the windows it was entered
\* with, before update_stats ran
generate_table_stale(devices, answers, st) ==
    CHOOSE t \in {TableOf(devices, r, st) :
                     r \in {update_stats(devices, answers, st)}} : TRUE

\* generate_table(): stats = update_stats(), then the rows from that stats
generate_table(devices, answers, st) ==
    CHOOSE t \in {TableOf(devices, r, r.stats) :
                     r \in {update_stats(devices, answers, st)}} : TRUE

-----------------------------------------------------------------------------
(* The program *)

VARIABLES
    registry,   \* the device registry the process finds at startup
    traffic,    \* "free": any answer to any query; "steady": growing counters
    pc,         \* "discover", "init", "layout", "live" or "crashed"
    error,      \* the uncaught exception that ended the process, if any
    ibd,        \* the module-level list of up devices
    stats,      \* the module-level dict of windows
    table,      \* the rows of the table generate_table returned last
    ticks,      \* generate_table() calls made so far
    qlog,       \* the queries of the loop over ibd that ran last
    queried,    \* the interfaces an Ethtool query was ever made on
    seed,       \* per device, the (rx, tx) values its windows were seeded with
    hist        \* per device, the (rx, tx) values of its completed updates

vars == <<registry, traffic, pc, error, ibd, stats, table, ticks, qlog,
          queried, seed, hist>>

NoError == [where |-> "", exc |-> "none"]

Init ==
    /\ registry \in Registries
    /\ traffic \in {"free", "steady"}
    /\ pc = "discover"
    /\ error = NoError
    /\ ibd = <<>>
    /\ stats = EmptyDict
    /\ table = <<>>
    /\ ticks = 0
    /\ qlog = <<>>
    /\ queried = {}
    /\ seed = EmptyDict
    /\ hist = EmptyDict

\* the answers the kernel may give to the q-th round of queries
AnswersAt(q) ==
    IF traffic = "free" THEN GoodAnswers \cup FailingAnswers
    ELSE {SteadyAnswer(q)}

TickBound == IF traffic = "free" THEN MaxTicks ELSE MaxSteadyTicks

\* the (rx, tx) pair of a log entry whose iteration completed
PairOf(entry) == <<entry.data[S_rx_bytes_phy], entry.data[S_tx_bytes_phy]>>

Completed(log) == {i \in 1 .. Len(log) : log[i].outcome = "ok"}

\* ibd = get_up_ib_devices(); stats = {}
Discover ==
    /\ pc = "discover"
    /\ \E r \in {get_up_ib_devices(registry)} :
           IF r.raised # "none"
           THEN /\ pc' = "crashed"
                /\ error' = [where |-> "get_up_ib_devices", exc |-> r.raised]
                /\ ibd' = ibd
           ELSE /\ pc' = "init"
                /\ error' = error
                /\ ibd' = r.value
    /\ UNCHANGED <<registry, traffic, stats, table, ticks, qlog, queried,
                   seed, hist>>

\* for device in ibd: the windows of every device are initialized
InitStats ==
    /\ pc = "init"
    /\ \E answers \in [1 .. Len(ibd) -> AnswersAt(0)] :
         \E r \in {InitFrom(ibd, answers, 1, stats, <<>>)} :
             /\ stats' = r.stats
             /\ qlog' = r.log
             /\ queried' = queried \cup {r.log[i].net : i \in 1 .. Len(r.log)}
             /\ seed' = [m \in {r.log[i].mlx : i \in Completed(r.log)} |->
                           PairOf(r.log[CHOOSE i \in Completed(r.log) :
                                            r.log[i].mlx = m])]
             /\ hist' = [m \in {r.log[i].mlx : i \in Completed(r.log)} |-> <<>>]
             /\ IF r.raised # "none"
                THEN /\ pc' = "crashed"
                     /\ error' = [where |-> "init", exc |-> r.raised]
                ELSE /\ pc' = "layout"
                     /\ error' = error
    /\ UNCHANGED <<registry, traffic, ibd, table, ticks>>

\* generate_table(): update_stats(), then one row per device
GenerateTable(next_pc) ==
    \E answers \in [1 .. Len(ibd) -> AnswersAt(ticks + 1)] :
       \E r \in {generate_table(ibd, answers, stats)} :
           /\ stats' = r.stats
           /\ qlog' = r.log
           /\ queried' = queried \cup {r.log[i].net : i \in 1 .. Len(r.log)}
           /\ hist' = [m \in DOMAIN hist |->
                         IF \E i \in Completed(r.log) : r.log[i].mlx = m
                         THEN Append(hist[m],
                                  PairOf(r.log[CHOOSE i \in Completed(r.log) :
                                                   r.log[i].mlx = m]))
                         ELSE hist[m]]
           /\ ticks' = ticks + 1
           /\ IF r.raised # "none"
              THEN /\ pc' = "crashed"
                   /\ error' = [where |-> "update_stats", exc |-> r.raised]
                   /\ table' = table
              ELSE /\ pc' = next_pc
                   /\ error' = error
                   /\ table' = r.rows

\* layout["main"].update(generate_table()), before the Live display starts
FirstTable ==
    /\ pc = "layout"
    /\ GenerateTable("live")
    /\ UNCHANGED <<registry, traffic, ibd, seed>>

\* one round of the while True loop
LoopTick ==
    /\ pc = "live"
    /\ ticks < TickBound
    /\ GenerateTable("live")
    /\ UNCHANGED <<registry, traffic, ibd, seed>>

Next == Discover \/ InitStats \/ FirstTable \/ LoopTick

Spec == Init /\ [][Next]_vars

-----------------------------------------------------------------------------
(* Properties of the sample windows *)

Tracked == {S_rx_bytes_phy, S_tx_bytes_phy}

\* position of a tracked counter in the (rx, tx) pairs of seed and hist
PairIndex(c) == IF c = S_rx_bytes_phy THEN 1 ELSE 2

\* the last loop over the devices was interrupted by an exception in the
\* iteration of device m
Interrupted(m) ==
    \E i \in 1 .. Len(qlog) : qlog[i].mlx = m /\ qlog[i].outcome # "ok"

\* the step is a call of generate_table
TableStep == pc \in {"layout", "live"}

\* the step is a run of a loop over the devices: initialization or update
QueryStep == pc \in {"init", "layout", "live"}

\* C1: every window of every device has exactly 20 entries once it is
\* initialized and after every update that ran to its end, whatever the number
\* of ticks and the values sampled.
C1_WindowLengthIsN ==
    /\ \A m \in DOMAIN stats : ~Interrupted(m) =>
          \A c \in DOMAIN stats[m] : Len(stats[m][c]) = WindowLen
    /\ pc \in {"layout", "live"} =>
          \A i \in 1 .. Len(ibd) :
             /\ ibd[i].mlx \in DOMAIN stats
             /\ DOMAIN stats[ibd[i].mlx] = Tracked

\* more updates than the window has entries, and two devices tracked
C1_Witness ==
    /\ pc = "live"
    /\ ticks > WindowLen
    /\ Len(ibd) = 2
    /\ \A i \in 1 .. Len(ibd) : Len(hist[ibd[i].mlx]) = ticks

\* C2: an update that runs to its end drops exactly the oldest entry of each
\* window of the device and appends exactly the value just sampled: the window
\* w[0..N-1] becomes w[1..N-1] followed by v.
C2_EvictOldestAppendNewest ==
    [][TableStep =>
         \A i \in 1 .. Len(qlog') : qlog'[i].outcome = "ok" =>
            \A c \in Tracked :
               LET w == stats[qlog'[i].mlx][c]
                   v == qlog'[i].data[c]
               IN  stats'[qlog'[i].mlx][c]
                     = [j \in 1 .. Len(w) |->
                          IF j < Len(w) THEN w[j + 1] ELSE v]]_vars

\* a window after two updates with different values: the seed at the front,
\* the two sampled values, in order, at the end
C2_Witness ==
    \E m \in DOMAIN hist :
       /\ ~Interrupted(m)
       /\ Len(hist[m]) = 2
       /\ hist[m][1][1] # hist[m][2][1]
       /\ stats[m][S_rx_bytes_phy][WindowLen - 1] = hist[m][1][1]
       /\ stats[m][S_rx_bytes_phy][WindowLen] = hist[m][2][1]
       /\ stats[m][S_rx_bytes_phy][1] = seed[m][1]

\* C3: after initialization with seed s and k completed updates, k < N, the
\* window has N entries, the first N-k are s and the last k are the sampled
\* values in the order of sampling.
C3_SeedThenSamples ==
    \A m \in DOMAIN hist : ~Interrupted(m) =>
       \A c \in Tracked :
          LET k == Len(hist[m])
              w == stats[m][c]
          IN  k < WindowLen =>
                 /\ Len(w) = WindowLen
                 /\ \A j \in 1 .. (WindowLen - k) : w[j] = seed[m][PairIndex(c)]
                 /\ \A j \in 1 .. k :
                       w[WindowLen - k + j] = hist[m][j][PairIndex(c)]

\* k = N-1: one seed entry is left, in front of 19 sampled values
C3_Witness ==
    \E m \in DOMAIN hist :
       /\ Len(hist[m]) = WindowLen - 1
       /\ stats[m][S_rx_bytes_phy][1] = seed[m][1]
       /\ stats[m][S_rx_bytes_phy][2] # seed[m][1]
       /\ stats[m][S_tx_bytes_phy][WindowLen] = hist[m][WindowLen - 1][2]

-----------------------------------------------------------------------------
(* Failures of the counter query *)

\* the last call of update_stats was ended by an exception
UpdateFailed ==
    ticks >= 1 /\ \E i \in 1 .. Len(qlog) : qlog[i].outcome # "ok"

\* the call of update_stats that failed was made by a round of the while
\* True loop: the first call of generate_table precedes the loop
LoopTickFailed == UpdateFailed /\ ticks >= 2

\* C4: a counter query that fails in a tick does not end the sampling loop:
\* the failure stays inside the loop, which goes on to a later tick.
C4_FailureDoesNotEndLoop == LoopTickFailed => pc = "live"

\* the step is a round of the while True loop
LoopStep == pc = "live"

\* C5: a tick in which the query of a device fails, or in which the snapshot
\* lacks rx_bytes_phy or tx_bytes_phy, leaves both windows of that device as
\* they were.
C5_FailedTickLeavesWindows ==
    [][LoopStep =>
         \A i \in 1 .. Len(qlog') : qlog'[i].outcome # "ok" =>
            stats'[qlog'[i].mlx] = stats[qlog'[i].mlx]]_vars

\* C6: when the query of one device fails in a tick, every other discovered
\* device is still queried exactly once and has its windows updated in that
\* tick.
C6_FailureIsIsolated ==
    [][LoopStep =>
         \A f \in 1 .. Len(qlog') : qlog'[f].outcome # "ok" =>
            \A j \in 1 .. Len(ibd) : ibd[j].mlx # qlog'[f].mlx =>
               /\ Cardinality({i \in 1 .. Len(qlog') :
                                  qlog'[i].mlx = ibd[j].mlx}) = 1
               /\ \A i \in 1 .. Len(qlog') : qlog'[i].mlx = ibd[j].mlx =>
                     /\ qlog'[i].outcome = "ok"
                     /\ \A c \in Tracked :
                           stats'[ibd[j].mlx][c]
                             = Append(Tail(stats[ibd[j].mlx][c]),
                                      qlog'[i].data[c])]_vars

\* C7: a set-info response with mask = 0 gives the effective count 0 and an
\* empty snapshot, and no window of the device is created or updated by that
\* query, at initialization and in every later tick.
C7_MaskZeroNoWindow ==
    [][QueryStep =>
         \A i \in 1 .. Len(qlog') :
            (qlog'[i].raised = "none" /\ qlog'[i].mask = 0) =>
               /\ qlog'[i].count = 0
               /\ DOMAIN qlog'[i].data = {}
               /\ IF qlog'[i].mlx \in DOMAIN stats
                  THEN stats'[qlog'[i].mlx] = stats[qlog'[i].mlx]
                  ELSE DOMAIN stats'[qlog'[i].mlx] = {}]_vars

\* a tick in which the second device answered mask = 0 after the first one
\* was updated
C7_Witness ==
    /\ ticks >= 1
    /\ Len(qlog) = 2
    /\ qlog[2].raised = "none" /\ qlog[2].mask = 0 /\ qlog[2].count = 0
    /\ Len(stats[qlog[2].mlx][S_rx_bytes_phy]) = WindowLen

-----------------------------------------------------------------------------
(* Rates *)

\* the row of the table for device m
RowOf(m) == table[CHOOSE i \in 1 .. Len(table) : table[i].mlx = m]

\* q is the floor of a / b, for b > 0
IsFloorOf(q, a, b) == q * b <= a /\ a < (q + 1) * b

\* C8: the rate series of a window has N-1 = 19 elements, and the one at
\* position i is floor((window[i] - window[i-1]) / 1000), for every device and
\* tracked counter after every tick.
C8_RateSeries ==
    pc = "live" =>
       /\ Len(table) = Len(ibd)
       /\ \A r \in 1 .. Len(table) :
             /\ Len(table[r].rx_series) = WindowLen - 1
             /\ Len(table[r].tx_series) = WindowLen - 1
             /\ \A i \in 1 .. (WindowLen - 1) :
                   LET rx == stats[table[r].mlx][S_rx_bytes_phy]
                       tx == stats[table[r].mlx][S_tx_bytes_phy]
                   IN  /\ IsFloorOf(table[r].rx_series[i],
                                    rx[i + 1] - rx[i], SparkScale)
                       /\ IsFloorOf(table[r].tx_series[i],
                                    tx[i + 1] - tx[i], SparkScale)

\* a series that ends with two negative deltas, the last one no multiple of
\* the scale: 41500, 1500, 1000 gives -40 and floor(-500 / 1000) = -1
C8_Witness ==
    /\ pc = "live"
    /\ \E r \in 1 .. Len(table) :
          /\ table[r].rx_series[1] = 0
          /\ table[r].rx_series[WindowLen - 2] = -40
          /\ table[r].rx_series[WindowLen - 1] = -1
          /\ table[r].tx_series[WindowLen - 1] = -1

\* C9: right after a tick that samples v when the newest entry was u, the
\* latest rate is (v - u) / 10^6, and the window has 20 entries before and
\* after the tick.
C9_LatestRate ==
    [][(TableStep /\ pc' = "live") =>
         \A i \in 1 .. Len(qlog') :
            LET m == qlog'[i].mlx
                row == table'[CHOOSE r \in 1 .. Len(table') :
                                 table'[r].mlx = m]
            IN  /\ \E r \in 1 .. Len(table') : table'[r].mlx = m
                /\ \A c \in Tracked :
                      /\ Len(stats[m][c]) = WindowLen
                      /\ Len(stats'[m][c]) = WindowLen
                /\ row.rx_rate.den = 1000000
                /\ row.tx_rate.den = 1000000
                /\ row.rx_rate.num
                     = qlog'[i].data[S_rx_bytes_phy]
                         - stats[m][S_rx_bytes_phy][WindowLen]
                /\ row.tx_rate.num
                     = qlog'[i].data[S_tx_bytes_phy]
                         - stats[m][S_tx_bytes_phy][WindowLen]]_vars

\* the scenario of the specification: seed (1000, 2000), one tick reading
\* (1500, 2300), rates 500 / 10^6 and 300 / 10^6
C9_Witness ==
    /\ pc = "live"
    /\ \E m \in DOMAIN hist :
          /\ seed[m] = <<1000, 2000>>
          /\ hist[m] = << <<1500, 2300>> >>
          /\ RowOf(m).rx_rate = [num |-> 500, den |-> 1000000]
          /\ RowOf(m).tx_rate = [num |-> 300, den |-> 1000000]
          /\ Len(stats[m][S_rx_bytes_phy]) = WindowLen

-----------------------------------------------------------------------------
(* The active set *)

\* the entries of the registry whose operstate file does not read 'up'
NotUpEntries ==
    {m \in DOMAIN registry.entries :
        /\ registry.entries[m].state_exists
        /\ registry.entries[m].operstate
             \notin { <<"u", "p">>, <<"u", "p", "\n">> }}

\* C10: a device is in the active set only if its operstate file, trimmed,
\* reads 'up'; a device that reads 'down' or anything else is not in the
\* active set, owns no window and is never queried.
C10_OnlyUpDevices ==
    /\ \A i \in 1 .. Len(ibd) :
          /\ ibd[i].mlx \in DOMAIN registry.entries
          /\ registry.entries[ibd[i].mlx].state_exists
          /\ registry.entries[ibd[i].mlx].operstate
               \in { <<"u", "p">>, <<"u", "p", "\n">> }
    /\ \A m \in NotUpEntries :
          /\ \A i \in 1 .. Len(ibd) : ibd[i].mlx # m
          /\ m \notin DOMAIN stats
          /\ \A n \in queried :
                \A j \in 1 .. Len(registry.entries[m].children) :
                   registry.entries[m].children[j] # n

\* mlx5_1 reads 'down' and mlx5_0 'up'; after two ticks only the interface
\* of mlx5_0 has been queried
C10_Witness ==
    /\ pc = "live"
    /\ ticks >= 2
    /\ N_mlx5_1 \in NotUpEntries
    /\ registry.entries[N_mlx5_1].operstate = <<"d", "o", "w", "n", "\n">>
    /\ Len(ibd) = 1
    /\ DOMAIN stats = {N_mlx5_0}
    /\ N_ib1 \notin queried
    /\ queried # {}

-----------------------------------------------------------------------------
(* Discovery failures *)

\* C11: discovery against a registry path that does not exist returns an
\* empty list without raising; startup goes on with an empty active set, no
\* window is created and the loop runs without querying any device.
C11_MissingRegistryIsEmpty ==
    ~registry.exists =>
       /\ pc # "crashed"
       /\ error = NoError
       /\ ibd = <<>>
       /\ DOMAIN stats = {}
       /\ queried = {}
       /\ pc = "live" => table = <<>>

\* the registry path is missing and the loop has made two rounds
C11_Witness ==
    /\ ~registry.exists
    /\ pc = "live"
    /\ ticks >= 2
    /\ ibd = <<>>
    /\ queried = {}

\* the mlx entries of the registry that resolve to an interface whose
\* operstate reads 'up'
UpCandidates ==
    {m \in DOMAIN registry.entries :
        /\ Contains(m, S_mlx)
        /\ registry.entries[m].net_exists
        /\ registry.entries[m].children # <<>>
        /\ registry.entries[m].state_exists
        /\ registry.entries[m].operstate
             \in { <<"u", "p">>, <<"u", "p", "\n">> }}

\* C12: a candidate whose network-binding directory is missing or empty, or
\* whose state file is missing, is skipped: discovery is not aborted and
\* every other candidate that resolves and is 'up' is returned.
C12_BadCandidateIsSkipped ==
    pc # "discover" =>
       /\ error.where # "get_up_ib_devices"
       /\ \A m \in UpCandidates : \E i \in 1 .. Len(ibd) : ibd[i].mlx = m

-----------------------------------------------------------------------------
(* The counter protocol *)

\* the count a set-info response stands for: its len, or 0 when its mask is 0
EffectiveCount(answer) == IF answer.mask = 0 THEN 0 ELSE answer.len

\* C13: every query sends set-info first, then strings, then stats; strings
\* and stats are sent only after the set-info response was read, and both
\* declare exactly the effective count of that response.
C13_RequestOrder ==
    \A i \in 1 .. Len(qlog) :
       LET rq == qlog[i].requests
           answer == qlog[i].answer
       IN  /\ Len(rq) \in 1 .. 3
           /\ rq[1].cmd = ETHTOOL_GSSET_INFO
           /\ answer.err = "none" => Len(rq) = 3
           /\ Len(rq) >= 2 =>
                 /\ answer.err # "GSSET_INFO"
                 /\ rq[2].cmd = ETHTOOL_GSTRINGS
                 /\ rq[2].count = EffectiveCount(answer)
           /\ Len(rq) = 3 =>
                 /\ answer.err \notin {"GSSET_INFO", "GSTRINGS"}
                 /\ rq[3].cmd = ETHTOOL_GSTATS
                 /\ rq[3].count = EffectiveCount(answer)

\* a loop tick with a completed query of three counters next to one whose
\* set-info response had mask 0 and a stale len
C13_Witness ==
    /\ ticks >= 2
    /\ Len(qlog) = 2
    /\ qlog[1].outcome = "ok"
    /\ Len(qlog[1].requests) = 3
    /\ qlog[1].requests[2].count = 3
    /\ qlog[1].requests[3].count = 3
    /\ qlog[2].answer.mask = 0
    /\ qlog[2].answer.len = 2
    /\ qlog[2].requests[3].count = 0

\* C14: the snapshot pairs names and values by position only: the value of
\* stats slot i goes with the name of string-table slot i of the same query,
\* and the snapshot has no entry for a name outside the string table.
C14_PositionalPairing ==
    \A q \in 1 .. Len(qlog) : qlog[q].raised = "none" =>
       LET answer == qlog[q].answer
           data == qlog[q].data
           n == EffectiveCount(answer)
       IN  /\ \A i \in 1 .. n :
                 \E k \in DOMAIN data :
                    /\ Slot(k) = answer.strings[i]
                    /\ data[k] = answer.values[i]
           /\ \A k \in DOMAIN data :
                 \E i \in 1 .. n : Slot(k) = answer.strings[i]

\* a query whose string table lists tx_bytes_phy before rx_bytes_phy
C14_Witness ==
    \E q \in 1 .. Len(qlog) :
       /\ ticks >= 1
       /\ qlog[q].outcome = "ok"
       /\ qlog[q].answer.strings = <<Slot(S_tx_bytes_phy), Slot(S_rx_bytes_phy)>>
       /\ qlog[q].answer.values = <<2300, 1500>>
       /\ qlog[q].data[S_tx_bytes_phy] = 2300
       /\ qlog[q].data[S_rx_bytes_phy] = 1500

-----------------------------------------------------------------------------
(* The tick *)

\* the rows of table t show the windows of st: the latest rate is the
\* difference of the two newest entries and series element i is the floor of
\* (w[i+1] - w[i]) / 1000
ShowsWindows(t, st) ==
    /\ Len(t) = Len(ibd)
    /\ \A i \in 1 .. Len(ibd) :
          \E j \in 1 .. Len(t) :
             /\ t[j].mlx = ibd[i].mlx
             /\ \A side \in {"rx", "tx"} :
                   LET w == IF side = "rx"
                            THEN st[ibd[i].mlx][S_rx_bytes_phy]
                            ELSE st[ibd[i].mlx][S_tx_bytes_phy]
                       series == IF side = "rx" THEN t[j].rx_series
                                 ELSE t[j].tx_series
                       rate == IF side = "rx" THEN t[j].rx_rate
                               ELSE t[j].tx_rate
                   IN  /\ rate.num = w[WindowLen] - w[WindowLen - 1]
                       /\ Len(series) = WindowLen - 1
                       /\ \A k \in 1 .. (WindowLen - 1) :
                             IsFloorOf(series[k], w[k + 1] - w[k], SparkScale)

-----------------------------------------------------------------------------
(* The device set *)

\* the devices discovery returned
Discovered == {ibd[i].mlx : i \in 1 .. Len(ibd)}

\* C16: once initialization has run, the devices that own windows are
\* exactly the discovered ones, each with an rx and a tx window, before the
\* first update; a tick leaves the device list and the owners of windows as
\* they are and queries and changes only devices that were initialized.
C16_DeviceSetIsFixed ==
    [][/\ (pc' \in {"layout", "live"} \/ error'.where = "update_stats") =>
             /\ DOMAIN stats' = Discovered'
             /\ \A m \in DOMAIN stats' : DOMAIN stats'[m] = Tracked
             /\ DOMAIN seed' = Discovered'
       /\ TableStep =>
             /\ ibd' = ibd
             /\ DOMAIN stats' = DOMAIN stats
             /\ \A i \in 1 .. Len(qlog') : qlog'[i].mlx \in DOMAIN seed
             /\ \A m \in DOMAIN stats :
                   stats'[m] # stats[m] =>
                      /\ m \in DOMAIN seed
                      /\ \E i \in 1 .. Len(qlog') : qlog'[i].mlx = m]_vars

\* two of the three registered devices are up and own windows, and the loop
\* has updated them more often than a window has entries
C16_Witness ==
    /\ pc = "live"
    /\ ticks > WindowLen
    /\ Cardinality(DOMAIN registry.entries) = 3
    /\ Discovered = {N_mlx5_0, N_mlx5_1}
    /\ DOMAIN stats = Discovered
    /\ \A m \in Discovered : stats[m][S_rx_bytes_phy][1] # seed[m][1]

-----------------------------------------------------------------------------
(* Alignment of the two windows of a device *)

\* the snapshot entry j of a window comes from, after k completed updates: the
\* initial snapshot while j is in front of the last k entries, else the
\* update that many places before the newest one
SnapshotAt(m, j) ==
    LET k == Len(hist[m])
    IN  IF j <= WindowLen - k THEN seed[m]
        ELSE hist[m][k - (WindowLen - j)]

\* C17: after initialization and after every update that ran to its end, the
\* rx and the tx window of a device have the same length and, at every index,
\* the rx entry and the tx entry are the two values of one snapshot: the
\* initial one or that of one update.
C17_WindowsAligned ==
    \A m \in DOMAIN hist : ~Interrupted(m) =>
       LET rx == stats[m][S_rx_bytes_phy]
           tx == stats[m][S_tx_bytes_phy]
       IN  /\ Len(rx) = Len(tx)
           /\ \A j \in 1 .. Len(rx) : <<rx[j], tx[j]>> = SnapshotAt(m, j)

\* two more updates than a window has entries: the pair at the front is the
\* third update's, the pair at the end the newest one's, and they differ
C17_Witness ==
    \E m \in DOMAIN hist :
       /\ ~Interrupted(m)
       /\ Len(hist[m]) = WindowLen + 2
       /\ stats[m][S_rx_bytes_phy][1] = hist[m][3][1]
       /\ stats[m][S_tx_bytes_phy][1] = hist[m][3][2]
       /\ stats[m][S_rx_bytes_phy][WindowLen] = hist[m][WindowLen + 2][1]
       /\ stats[m][S_tx_bytes_phy][WindowLen] = hist[m][WindowLen + 2][2]
       /\ hist[m][3] # hist[m][WindowLen + 2]

-----------------------------------------------------------------------------
(* The sign of the rates *)

\* C18: in every table, an element of a rate series is >= 0 when the sample
\* it ends at is not smaller than the one before it and negative when it is
\* smaller, and so is the latest rate: samples that never decrease give no
\* negative rate, and a decrease is shown as a negative rate, not guarded.
C18_RateSign ==
    (pc = "live" /\ ticks >= 1) =>
       \A d \in 1 .. Len(ibd) :
          LET m == ibd[d].mlx
              row == RowOf(m)
          IN  /\ \A i \in 1 .. (WindowLen - 1) :
                    /\ (row.rx_series[i] >= 0)
                          <=> (stats[m][S_rx_bytes_phy][i + 1]
                                 >= stats[m][S_rx_bytes_phy][i])
                    /\ (row.tx_series[i] >= 0)
                          <=> (stats[m][S_tx_bytes_phy][i + 1]
                                 >= stats[m][S_tx_bytes_phy][i])
              /\ (row.rx_rate.num >= 0)
                    <=> (stats[m][S_rx_bytes_phy][WindowLen]
                           >= stats[m][S_rx_bytes_phy][WindowLen - 1])
              /\ (row.tx_rate.num >= 0)
                    <=> (stats[m][S_tx_bytes_phy][WindowLen]
                           >= stats[m][S_tx_bytes_phy][WindowLen - 1])

\* one tick in which the received bytes grew from 1500 to 41500 and the sent
\* bytes fell from 2300 to 2000: the rx rates are positive, the tx rates
\* negative
C18_Witness ==
    \E d \in 1 .. Len(ibd) :
       LET m == ibd[d].mlx
       IN  /\ pc = "live"
           /\ ticks = 1
           /\ seed[m] = <<1500, 2300>>
           /\ hist[m] = << <<41500, 2000>> >>
           /\ RowOf(m).rx_series[WindowLen - 1] = 40
           /\ RowOf(m).rx_rate.num = 40000
           /\ RowOf(m).tx_series[WindowLen - 1] = 0 - 1
           /\ RowOf(m).tx_rate.num = 0 - 300
           /\ RowOf(m).tx_series[WindowLen - 2] = 0

====
